---- MODULE Spec2Model ----
(***************************************************************************)
(* Model of draw2dpdf/gc.go: the pdf GraphicContext of draw2d.             *)
(*                                                                         *)
(* Numbers.  Pixel coordinates, advances and widths are float64 in the     *)
(* code; every value the model feeds in is a multiple of 1/256, which      *)
(* float64 adds and subtracts exactly, so a coordinate is modelled by the  *)
(* integer 256 * value.  Alpha and the glyph scale are quotients and are   *)
(* kept as reduced fractions <<numerator, denominator>>.                   *)
(***************************************************************************)
EXTENDS Integers, Sequences, FiniteSets, TLC

VARIABLES
    Current,   \* gc.Current: the active draw2d.ContextStack entry
    Stack,     \* the chain gc.Current.Previous, ..., innermost saved state first
    dpi,       \* gc.DPI
    pdf,       \* the gofpdf.Fpdf document handle's cached settings
    out,       \* the commands the last call sent to the document handle, in order
    fontLog,   \* the font backend calls the last call made, in order
    call,      \* the last call made on the context, with its arguments
    ret,       \* the value the last call returned (0 for calls returning nothing)
    nset,      \* number of setter and path-building calls made so far
    unbalanced, \* TRUE once a Restore was issued with no outstanding Save
    imageCount, \* the package variable imageCount
    threads     \* per thread, each with a context and handle of its own: its
                \* position in DrawImage, its local name, the value it loaded
                \* for imageCount++, the names its handle registered

vars == <<Current, Stack, dpi, pdf, out, fontLog, call, ret, nset, unbalanced,
          imageCount, threads>>

----------------------------------------------------------------------------
(* Bounds of the model *)

MaxSets == 2      \* setter / path-building calls in one run
MaxDepth == 2     \* nesting depth of Save
MaxStr == 2       \* length of a laid-out string
MaxPending == 4   \* a text call starts with at most this many pending segments
MaxImages == 3    \* DrawImage calls in one run

----------------------------------------------------------------------------
(* Program constants *)

DPI == 72
alphaMax == 65535

----------------------------------------------------------------------------
(* Arithmetic helpers *)

RECURSIVE Gcd(_, _)
Gcd(a, b) == IF b = 0 THEN a ELSE Gcd(b, a % b)

\* the quotient n/d (d > 0, n >= 0) as a reduced fraction
Frac(n, d) == LET g == Gcd(n, d) IN <<n \div g, d \div g>>

\* Go's integer division and remainder: truncation toward zero, remainder
\* with the sign of the dividend
Quot(a, b) == IF a >= 0 \/ a % b = 0 THEN a \div b ELSE (a \div b) + 1
Rem(a, b) == a - b * Quot(a, b)

\* x << 2 on an int32: the low 30 bits of x move up, the result is read as
\* a signed 32-bit value
Shl2(x) ==
    LET u == x % 1073741824
    IN IF u < 536870912 THEN u * 4 ELSE (u - 1073741824) * 4

----------------------------------------------------------------------------
(* Colours: the 16-bit premultiplied components color.Color.RGBA() returns *)

Black == [R |-> 0, G |-> 0, B |-> 0, A |-> 65535]
White == [R |-> 65535, G |-> 65535, B |-> 65535, A |-> 65535]
HalfRed == [R |-> 32896, G |-> 0, B |-> 0, A |-> 32896]
Colors == {Black, White, HalfRed}

\* int(float64(v) * c255), c255 = 255.0 / 65535.0
Chan(v) == (v * 255) \div 65535

rgb(c) == <<Chan(c.R), Chan(c.G), Chan(c.B)>>

caps == [c \in {"RoundCap", "ButtCap", "SquareCap"} |->
            CASE c = "RoundCap" -> "round"
              [] c = "ButtCap" -> "butt"
              [] c = "SquareCap" -> "square"]

joins == [j \in {"RoundJoin", "BevelJoin", "MiterJoin"} |->
            CASE j = "RoundJoin" -> "round"
              [] j = "BevelJoin" -> "bevel"
              [] j = "MiterJoin" -> "miter"]

FillRules == {"FillRuleEvenOdd", "FillRuleWinding"}
UseNonZeroWinding(rule) == rule = "FillRuleWinding"

LineWidths == {256, 512}

----------------------------------------------------------------------------
(* Paths *)

Seg(op, cx, cy, x, y) == [op |-> op, cx |-> cx, cy |-> cy, x |-> x, y |-> y]

Pts == {<<256, 512>>}

\* an extra path a caller may pass to a draw call
ExtraPath == <<Seg("M", 0, 0, 768, 0), Seg("L", 0, 0, 768, 768)>>
ExtraPathLists == {<<>>, <<ExtraPath>>}

RECURSIVE Flatten(_)
Flatten(paths) ==
    IF paths = <<>> THEN <<>> ELSE Head(paths) \o Flatten(Tail(paths))

----------------------------------------------------------------------------
(* The document handle (gofpdf.Fpdf).  Operations act on a record w with the
   fields Current, Stack, dpi, pdf (the handle's cached settings), out (the
   log of the commands the handle received during the call) and fontLog
   (the log of the calls made to the font backend during the call). *)

Cmd(name, arg) == [cmd |-> name, arg |-> arg]

PdfSet(w, field, value, name) ==
    [w EXCEPT !.pdf = [@ EXCEPT ![field] = value],
              !.out = Append(@, Cmd(name, value))]

PdfTransformBegin(w) ==
    [w EXCEPT !.pdf.transformNest = @ + 1,
              !.out = Append(@, Cmd("TransformBegin", <<>>))]

PdfTransformEnd(w) ==
    [w EXCEPT !.pdf.transformNest = IF @ > 0 THEN @ - 1 ELSE @,
              !.out = Append(@, Cmd("TransformEnd", <<>>))]

\* the path converter hands every segment of every path to the handle
PathConvert(w, paths) ==
    [w EXCEPT !.pdf.path = @ \o Flatten(paths),
              !.out = Append(@, Cmd("Path", Flatten(paths)))]

\* DrawPath paints the geometry received since the last draw command
PdfDrawPath(w, style) ==
    [w EXCEPT !.pdf.path = <<>>,
              !.out = Append(@, Cmd("DrawPath",
                         [style |-> style, alpha |-> w.pdf.alpha,
                          geom |-> w.pdf.path]))]

PdfSetAlpha(w, a) == PdfSet(w, "alpha", a, "SetAlpha")

----------------------------------------------------------------------------
(* draw2d.StackGraphicContext, the base the pdf context embeds *)

BaseSet(w, field, value) == [w EXCEPT !.Current[field] = value]

BaseSave(w) == [w EXCEPT !.Stack = <<w.Current>> \o @]

BaseRestore(w) ==
    IF w.Stack = <<>> THEN w
    ELSE [w EXCEPT !.Current = Head(w.Stack), !.Stack = Tail(@)]

BaseAppend(w, seg) == [w EXCEPT !.Current.Path = Append(@, seg)]

----------------------------------------------------------------------------
(* Methods of GraphicContext, as functions of the record w *)

recalc(w) ==
    [w EXCEPT !.Current.Scale = Frac(w.Current.FontSize * w.dpi * 64, 72 * 3)]

gcSetDPI(w, d) == recalc([w EXCEPT !.dpi = d])

gcSetFontSize(w, fontSize) == recalc(BaseSet(w, "FontSize", fontSize))

gcSetStrokeColor(w, c) ==
    PdfSet(BaseSet(w, "StrokeColor", c), "drawColor", rgb(c), "SetDrawColor")

gcSetFillColor(w, c) ==
    PdfSet(PdfSet(BaseSet(w, "FillColor", c),
                  "fillColor", rgb(c), "SetFillColor"),
           "textColor", rgb(c), "SetTextColor")

gcSetLineWidth(w, LineWidth) ==
    PdfSet(BaseSet(w, "LineWidth", LineWidth),
           "lineWidth", LineWidth, "SetLineWidth")

gcSetLineCap(w, Cap) ==
    PdfSet(BaseSet(w, "Cap", Cap), "capStyle", caps[Cap], "SetLineCapStyle")

gcSetLineJoin(w, Join) ==
    PdfSet(BaseSet(w, "Join", Join), "joinStyle", joins[Join], "SetLineJoinStyle")

gcSetLineDash(w, Dash, DashOffset) ==
    PdfSet(BaseSet(BaseSet(w, "Dash", Dash), "DashOffset", DashOffset),
           "dash", <<Dash, DashOffset>>, "SetDashPattern")

\* draw2d.FontFileName: the name of the font's file as <<stem, extension>>
FontFileName(fontData) ==
    LET family == CASE fontData.Family = "sans" -> "s"
                    [] fontData.Family = "serif" -> "r"
                    [] fontData.Family = "mono" -> "m"
        style == IF fontData.Style = 0 THEN "r"
                 ELSE (IF fontData.Style % 2 = 1 THEN "b" ELSE "")
                        \o (IF (fontData.Style \div 2) % 2 = 1 THEN "i" ELSE "")
    IN <<fontData.Name \o family \o style, ".ttf">>

gcSetFontData(w, fontData) ==
    LET w1 == BaseSet(w, "FontData", fontData)
        style == (IF fontData.Style % 2 = 1 THEN "B" ELSE "")
                   \o (IF (fontData.Style \div 2) % 2 = 1 THEN "I" ELSE "")
        fn == FontFileName(fontData)[1]
        size == w1.pdf.font.size
        w2 == [w1 EXCEPT !.out = Append(@, Cmd("AddFont",
                                      <<fontData.Name, style, fn \o ".json">>))]
    IN PdfSet(w2, "font",
              [family |-> fontData.Name, style |-> style, size |-> size], "SetFont")

\* (mutant) Save opens no transform block in the handle
gcSaveNoBegin(w) == BaseSave(w)

gcSave(w) == PdfTransformBegin(BaseSave(w))

\* (mutant) Restore re-applies the fill colour as the stroke colour
gcRestoreWrongColor(w) ==
    LET w0 == BaseRestore(PdfTransformEnd(w))
        c == w0.Current
        w1 == gcSetFontSize(w0, c.FontSize)
        w2 == gcSetLineWidth(w1, c.LineWidth)
        w3 == gcSetStrokeColor(w2, c.FillColor)
        w4 == gcSetFillColor(w3, c.FillColor)
        w5 == BaseSet(w4, "FillRule", c.FillRule)
        w6 == gcSetLineCap(w5, c.Cap)
    IN gcSetLineJoin(w6, c.Join)

\* (mutant) Restore pops the state and re-sends nothing but the colours
gcRestoreColorsOnly(w) ==
    LET w0 == BaseRestore(PdfTransformEnd(w))
        c == w0.Current
        w1 == gcSetFontSize(w0, c.FontSize)
        w3 == gcSetStrokeColor(w1, c.StrokeColor)
    IN gcSetFillColor(w3, c.FillColor)

\* (mutant) Restore does not set the font size again
gcRestoreNoFontSize(w) ==
    LET w0 == BaseRestore(PdfTransformEnd(w))
        c == w0.Current
        w2 == gcSetLineWidth(w0, c.LineWidth)
        w3 == gcSetStrokeColor(w2, c.StrokeColor)
        w4 == gcSetFillColor(w3, c.FillColor)
        w5 == BaseSet(w4, "FillRule", c.FillRule)
        w6 == gcSetLineCap(w5, c.Cap)
    IN gcSetLineJoin(w6, c.Join)

\* (mutant) Restore sends the restored dash pattern to the handle
gcRestoreWithDash(w) ==
    LET w0 == BaseRestore(PdfTransformEnd(w))
        c == w0.Current
        w1 == gcSetFontSize(w0, c.FontSize)
        w2 == gcSetLineWidth(w1, c.LineWidth)
        w3 == gcSetStrokeColor(w2, c.StrokeColor)
        w4 == gcSetFillColor(w3, c.FillColor)
        w5 == BaseSet(w4, "FillRule", c.FillRule)
        w5d == gcSetLineDash(w5, c.Dash, c.DashOffset)
        w6 == gcSetLineCap(w5d, c.Cap)
    IN gcSetLineJoin(w6, c.Join)

gcRestore(w) ==
    LET w0 == BaseRestore(PdfTransformEnd(w))
        c == w0.Current
        w1 == gcSetFontSize(w0, c.FontSize)
        w2 == gcSetLineWidth(w1, c.LineWidth)
        w3 == gcSetStrokeColor(w2, c.StrokeColor)
        w4 == gcSetFillColor(w3, c.FillColor)
        w5 == BaseSet(w4, "FillRule", c.FillRule)
        w6 == gcSetLineCap(w5, c.Cap)
    IN gcSetLineJoin(w6, c.Join)

\* (mutant) the alpha is sent to the handle before every draw command
drawAlwaysSetAlpha(w, style, alpha, paths) ==
    LET w1 == PathConvert(w, Append(paths, w.Current.Path))
    IN PdfDrawPath(PdfSetAlpha(w1, Frac(alpha, alphaMax)), style)

\* (mutant) every draw resets the current path itself
drawResetsPath(w, style, alpha, paths) ==
    LET w1 == PathConvert(w, Append(paths, w.Current.Path))
        a == Frac(alpha, alphaMax)
        w2 == IF a # w1.pdf.alpha THEN PdfSetAlpha(w1, a) ELSE w1
    IN [PdfDrawPath(w2, style) EXCEPT !.Current.Path = <<>>]

\* draw fills and/or strokes paths
draw(w, style, alpha, paths) ==
    LET w1 == PathConvert(w, Append(paths, w.Current.Path))
        a == Frac(alpha, alphaMax)
        w2 == IF a # w1.pdf.alpha THEN PdfSetAlpha(w1, a) ELSE w1
    IN PdfDrawPath(w2, style)

\* (mutant) the current path is kept after a draw call
KeepPath(w) == w

\* gc.Current.Path = draw2d.NewPathStorage()
ResetPath(w) == [w EXCEPT !.Current.Path = <<>>]

gcStroke(w, paths) == ResetPath(draw(w, "D", w.Current.StrokeColor.A, paths))

\* (mutant) the even-odd suffix goes with the nonzero-winding rule
gcFillInvertedRule(w, paths) ==
    LET style == IF UseNonZeroWinding(w.Current.FillRule) THEN "F*" ELSE "F"
    IN ResetPath(draw(w, style, w.Current.FillColor.A, paths))

gcFill(w, paths) ==
    LET style == IF ~UseNonZeroWinding(w.Current.FillRule) THEN "F*" ELSE "F"
    IN ResetPath(draw(w, style, w.Current.FillColor.A, paths))

\* (mutant) with differing alphas the stroke is drawn before the fill
gcFillStrokeSwapped(w, paths) ==
    LET rule == IF ~UseNonZeroWinding(w.Current.FillRule) THEN "*" ELSE ""
        alphaS == w.Current.StrokeColor.A
        alphaF == w.Current.FillColor.A
    IN ResetPath(IF alphaS = alphaF
                 THEN draw(w, "FD" \o rule, alphaF, paths)
                 ELSE draw(draw(w, "S", alphaS, paths), "F" \o rule, alphaF, paths))

gcFillStroke(w, paths) ==
    LET rule == IF ~UseNonZeroWinding(w.Current.FillRule) THEN "*" ELSE ""
        alphaS == w.Current.StrokeColor.A
        alphaF == w.Current.FillColor.A
    IN ResetPath(IF alphaS = alphaF
                 THEN draw(w, "FD" \o rule, alphaF, paths)
                 ELSE draw(draw(w, "F" \o rule, alphaF, paths), "S", alphaS, paths))

----------------------------------------------------------------------------
(* State after NewPdf and NewGraphicContext *)

InitCurrent ==
    [StrokeColor |-> Black, FillColor |-> White, LineWidth |-> 256,
     Cap |-> "RoundCap", Join |-> "RoundJoin", FillRule |-> "FillRuleEvenOdd",
     FontSize |-> 10, Scale |-> <<0, 1>>, Path |-> <<>>,
     Dash |-> <<>>, DashOffset |-> 0,
     FontData |-> [Name |-> "luxi", Family |-> "sans", Style |-> 0]]

\* the page size NewPdf was asked for (A4, in points)
PageSize == <<595 * 256, 842 * 256>>

NewPdf ==
    [alpha |-> <<1, 1>>, drawColor |-> <<0, 0, 0>>, fillColor |-> <<255, 255, 255>>,
     textColor |-> <<0, 0, 0>>, lineWidth |-> 256, capStyle |-> "round",
     joinStyle |-> "round", transformNest |-> 0, path |-> <<>>,
     xy |-> <<0, 0>>, pageSize |-> PageSize, dash |-> <<<<>>, 0>>, font |-> [family |-> "", style |-> "", size |-> 12]]

NewGraphicContext ==
    gcSetDPI([Current |-> InitCurrent, Stack |-> <<>>, dpi |-> DPI,
              pdf |-> NewPdf, out |-> <<>>, fontLog |-> <<>>], DPI)

\* draw2d.Rect: a closed rectangle appended to the current path
Rect(w, x1, y1, x2, y2) ==
    LET w1 == BaseAppend(w, Seg("M", 0, 0, x1, y1))
        w2 == BaseAppend(w1, Seg("L", 0, 0, x2, y1))
        w3 == BaseAppend(w2, Seg("L", 0, 0, x2, y2))
        w4 == BaseAppend(w3, Seg("L", 0, 0, x1, y2))
    IN BaseAppend(w4, Seg("Z", 0, 0, 0, 0))

\* clearRect draws a white rectangle
clearRect(w, x1, y1, x2, y2) ==
    LET f == w.Current.FillColor
        xy == w.pdf.xy
        w1 == gcSetFillColor(w, White)
        w2 == Rect(w1, x1, y1, x2, y2)
        w3 == gcFill(w2, <<>>)
        w4 == gcSetFillColor(w3, f)
    IN PdfSet(w4, "xy", xy, "MoveTo")

gcClear(w) == clearRect(w, 0, 0, w.pdf.pageSize[1], w.pdf.pageSize[2])

\* the arguments are ints
gcClearRect(w, x1, y1, x2, y2) ==
    clearRect(w, 256 * x1, 256 * y1, 256 * x2, 256 * y2)

DrawOps == {"Stroke", "Fill", "FillStroke"}

\* the record of a call: its name and arguments, and whether the call before
\* it was a draw call
NoCall(name) ==
    [name |-> name, paths |-> <<>>, text |-> <<>>, x |-> 0, y |-> 0, bad |-> {},
     ps |-> <<>>, afterDraw |-> call.name \in DrawOps]

\* the threads that draw images, each on its own context
Threads == {1, 2}

Init ==
    /\ Current = NewGraphicContext.Current
    /\ Stack = NewGraphicContext.Stack
    /\ dpi = NewGraphicContext.dpi
    /\ pdf = NewGraphicContext.pdf
    /\ out = <<>>
    /\ fontLog = <<>>
    /\ call = [name |-> "NewGraphicContext", paths |-> <<>>, text |-> <<>>,
               x |-> 0, y |-> 0, bad |-> {}, ps |-> <<>>, afterDraw |-> FALSE]
    /\ ret = 0
    /\ nset = 0
    /\ unbalanced = FALSE
    /\ imageCount = 0
    /\ threads = [t \in Threads |->
                    [pc |-> "idle", name |-> "", loaded |-> 0, images |-> <<>>]]

\* the context and the handle as a call finds them
GC ==
    [Current |-> Current, Stack |-> Stack, dpi |-> dpi, pdf |-> pdf,
     out |-> <<>>, fontLog |-> <<>>]

Commit(w) ==
    /\ Current' = w.Current
    /\ Stack' = w.Stack
    /\ dpi' = w.dpi
    /\ pdf' = w.pdf
    /\ out' = w.out
    /\ fontLog' = w.fontLog
    /\ UNCHANGED <<imageCount, threads>>

Setter(name, w) ==
    /\ nset < MaxSets
    /\ nset' = nset + 1
    /\ Commit(w)
    /\ call' = NoCall(name)
    /\ ret' = 0
    /\ UNCHANGED unbalanced

----------------------------------------------------------------------------
(* The calls *)

SetStrokeColor(c) == Setter("SetStrokeColor", gcSetStrokeColor(GC, c))
SetFillColor(c) == Setter("SetFillColor", gcSetFillColor(GC, c))
SetLineWidth(lw) == Setter("SetLineWidth", gcSetLineWidth(GC, lw))
SetLineCap(c) == Setter("SetLineCap", gcSetLineCap(GC, c))
SetLineJoin(j) == Setter("SetLineJoin", gcSetLineJoin(GC, j))
SetFillRule(r) == Setter("SetFillRule", BaseSet(GC, "FillRule", r))
MoveTo(p) == Setter("MoveTo", BaseAppend(GC, Seg("M", 0, 0, p[1], p[2])))
LineTo(p) == Setter("LineTo", BaseAppend(GC, Seg("L", 0, 0, p[1], p[2])))

FontSizes == {10, 27}
DPIs == {72, 96}
DashPatterns == {<<<<>>, 0>>, <<<<768, 256>>, 128>>}
FontDatas == {[Name |-> "luxi", Family |-> "sans", Style |-> 0],
              [Name |-> "luxi", Family |-> "mono", Style |-> 3]}

SetFontSize(fontSize) == Setter("SetFontSize", gcSetFontSize(GC, fontSize))
SetDPI(d) == Setter("SetDPI", gcSetDPI(GC, d))
SetLineDash(d) == Setter("SetLineDash", gcSetLineDash(GC, d[1], d[2]))
SetFontData(f) == Setter("SetFontData", gcSetFontData(GC, f))

Save ==
    /\ Len(Stack) < MaxDepth
    /\ Commit(gcSave(GC))
    /\ call' = NoCall("Save")
    /\ ret' = 0
    /\ UNCHANGED <<nset, unbalanced>>

Restore ==
    /\ Commit(gcRestore(GC))
    /\ call' = NoCall("Restore")
    /\ unbalanced' = (unbalanced \/ Stack = <<>>)
    /\ ret' = 0
    /\ UNCHANGED nset

Draw(name, w, paths) ==
    /\ Commit(w)
    /\ call' = [NoCall(name) EXCEPT !.paths = paths]
    /\ ret' = 0
    /\ UNCHANGED <<nset, unbalanced>>

Stroke(paths) == Draw("Stroke", gcStroke(GC, paths), paths)
Fill(paths) == Draw("Fill", gcFill(GC, paths), paths)
FillStroke(paths) == Draw("FillStroke", gcFillStroke(GC, paths), paths)

----------------------------------------------------------------------------
(* Specifications *)

\* paint state and the state stack
NextState ==
    \/ \E c \in Colors : SetStrokeColor(c)
    \/ \E c \in Colors : SetFillColor(c)
    \/ \E lw \in LineWidths : SetLineWidth(lw)
    \/ \E c \in DOMAIN caps : SetLineCap(c)
    \/ \E j \in DOMAIN joins : SetLineJoin(j)
    \/ \E r \in FillRules : SetFillRule(r)
    \/ Save
    \/ Restore

SpecState == Init /\ [][NextState]_vars

Rects == {<<0, 0, 10, 20>>, <<-5, 3, 40, 40>>}

Clear ==
    /\ Commit(gcClear(GC))
    /\ call' = NoCall("Clear")
    /\ ret' = 0
    /\ UNCHANGED <<nset, unbalanced>>

ClearRect(r) ==
    /\ Commit(gcClearRect(GC, r[1], r[2], r[3], r[4]))
    /\ call' = [NoCall("ClearRect") EXCEPT !.ps = r]
    /\ ret' = 0
    /\ UNCHANGED <<nset, unbalanced>>

\* colours, pending path, the state stack and the clearing calls
NextClear ==
    \/ \E c \in Colors : SetStrokeColor(c)
    \/ \E c \in Colors : SetFillColor(c)
    \/ \E lw \in LineWidths : SetLineWidth(lw)
    \/ \E p \in Pts : MoveTo(p)
    \/ Save
    \/ Restore
    \/ Clear
    \/ \E r \in Rects : ClearRect(r)

SpecClear == Init /\ [][NextClear]_vars

\* font size, DPI, dash pattern, font and the state stack
NextFont ==
    \/ \E fontSize \in FontSizes : SetFontSize(fontSize)
    \/ \E d \in DPIs : SetDPI(d)
    \/ \E d \in DashPatterns : SetLineDash(d)
    \/ \E f \in FontDatas : SetFontData(f)
    \/ Save
    \/ Restore

SpecFont == Init /\ [][NextFont]_vars

\* paths and draw dispatch
Next ==
    \/ \E c \in Colors : SetStrokeColor(c)
    \/ \E c \in Colors : SetFillColor(c)
    \/ \E r \in FillRules : SetFillRule(r)
    \/ \E p \in Pts : MoveTo(p)
    \/ \E p \in Pts : LineTo(p)
    \/ Save
    \/ Restore
    \/ \E paths \in ExtraPathLists : Stroke(paths)
    \/ \E paths \in ExtraPathLists : Fill(paths)
    \/ \E paths \in ExtraPathLists : FillStroke(paths)

Spec == Init /\ [][Next]_vars

----------------------------------------------------------------------------
(* Properties of the draw dispatch, checked under Spec *)

Draws(o) == SelectSeq(o, LAMBDA c : c.cmd = "DrawPath")
Sent(o, name) == SelectSeq(o, LAMBDA c : c.cmd = name)

\* the fraction f equals alpha / 65535
AlphaIs(f, alpha) == f[1] * alphaMax = alpha * f[2]

FillStyles == {"F", "F*"}
CombinedStyles == {"FD", "FD*"}

\* C1: FillStroke sends exactly one draw command, with the combined style,
\* when the stroke alpha equals the fill alpha; when they differ it sends
\* exactly two, first a fill draw under the fill alpha, then a stroke draw
\* under the stroke alpha.
C1_FillStrokeDraws ==
    [][call'.name = "FillStroke" =>
        LET d == Draws(out')
        IN IF Current.StrokeColor.A = Current.FillColor.A
           THEN /\ Len(d) = 1
                /\ d[1].arg.style \in CombinedStyles
           ELSE /\ Len(d) = 2
                /\ d[1].arg.style \in FillStyles
                /\ AlphaIs(d[1].arg.alpha, Current.FillColor.A)
                /\ d[2].arg.style = "S"
                /\ AlphaIs(d[2].arg.alpha, Current.StrokeColor.A)]_vars

C1_Witness ==
    /\ call.name = "FillStroke"
    /\ Current.StrokeColor.A # Current.FillColor.A
    /\ Len(Draws(out)) = 2
    /\ Draws(out)[1].arg.geom # <<>>

\* C2: after Fill, Stroke or FillStroke the current path is empty, and a
\* draw call made right after another draw call hands the handle only the
\* extra paths passed to it.
C2_PathConsumed ==
    call.name \in DrawOps =>
        /\ Current.Path = <<>>
        /\ call.afterDraw =>
              \A i \in 1..Len(Draws(out)) :
                  Draws(out)[i].arg.geom = Flatten(call.paths)

C2_Witness ==
    /\ call.name \in DrawOps
    /\ call.afterDraw
    /\ call.paths # <<>>
    /\ Draws(out)[1].arg.geom = ExtraPath

\* the handle's alpha after the first n commands of o, from alpha a0
RECURSIVE AlphaAfter(_, _, _)
AlphaAfter(o, n, a0) ==
    IF n = 0 THEN a0
    ELSE IF o[n].cmd = "SetAlpha" THEN o[n].arg
    ELSE AlphaAfter(o, n - 1, a0)

StrokeStyles == {"D", "S"}

\* C3: every draw command is issued while the handle's alpha is the alpha
\* of the colour the draw uses over 65535, and an alpha update reaches the
\* handle only when it changes the handle's alpha.
C3_AlphaAtDraw ==
    [][/\ \A i \in 1..Len(out') :
            /\ out'[i].cmd = "DrawPath" =>
                 /\ AlphaAfter(out', i, pdf.alpha) = out'[i].arg.alpha
                 /\ AlphaIs(out'[i].arg.alpha,
                            IF out'[i].arg.style \in StrokeStyles
                            THEN Current'.StrokeColor.A
                            ELSE Current'.FillColor.A)
            /\ out'[i].cmd = "SetAlpha" =>
                 out'[i].arg # AlphaAfter(out', i - 1, pdf.alpha)
       /\ pdf'.alpha = AlphaAfter(out', Len(out'), pdf.alpha)]_vars

C3_Witness ==
    /\ call.name = "Fill"
    /\ Len(Stack) > 0
    /\ Len(Sent(out, "SetAlpha")) = 1
    /\ AlphaIs(pdf.alpha, White.A)

\* the suffix of a filling style under the fill rule r
RuleSuffix(r) == IF UseNonZeroWinding(r) THEN "" ELSE "*"

\* C14: Stroke sends one draw, style "D", under the stroke alpha; Fill sends
\* one draw under the fill alpha whose style is "F" with the even-odd suffix
\* exactly when the fill rule is not nonzero-winding; the fill draw and the
\* combined draw of FillStroke carry the suffix under the same condition.
\* The style is a function of the call, the fill rule and whether the two
\* alphas are equal, and of nothing else.
C14_DrawStyles ==
    [][LET d == Draws(out')
           rule == RuleSuffix(Current.FillRule)
       IN /\ call'.name = "Stroke" =>
                /\ Len(d) = 1
                /\ d[1].arg.style = "D"
                /\ AlphaIs(d[1].arg.alpha, Current.StrokeColor.A)
          /\ call'.name = "Fill" =>
                /\ Len(d) = 1
                /\ d[1].arg.style = "F" \o rule
                /\ AlphaIs(d[1].arg.alpha, Current.FillColor.A)
          /\ call'.name = "FillStroke" =>
                <<[i \in 1..Len(d) |-> d[i].arg.style]>> =
                   <<IF Current.StrokeColor.A = Current.FillColor.A
                     THEN <<"FD" \o rule>>
                     ELSE <<"F" \o rule, "S">> >>]_vars

C14_Witness ==
    /\ call.name = "Fill"
    /\ UseNonZeroWinding(Current.FillRule)
    /\ Len(Draws(out)) = 1
    /\ Draws(out)[1].arg.style = "F"
    /\ Draws(out)[1].arg.geom # <<>>

\* C17: when the stroke alpha and the fill alpha differ, the two draws of
\* FillStroke both cover the extra paths passed followed by the whole
\* current path as it was before the call, and the current path is empty
\* after the call.
C17_SameGeometry ==
    [][(call'.name = "FillStroke" /\ Current.StrokeColor.A # Current.FillColor.A) =>
         LET d == Draws(out')
             whole == Flatten(call'.paths) \o Current.Path
         IN /\ Len(d) = 2
            /\ d[1].arg.geom = whole
            /\ d[2].arg.geom = whole
            /\ Current'.Path = <<>>]_vars

C17_Witness ==
    /\ call.name = "FillStroke"
    /\ Len(Draws(out)) = 2
    /\ call.paths # <<>>
    /\ Draws(out)[2].arg.style = "S"
    /\ Len(Draws(out)[2].arg.geom) > Len(Flatten(call.paths))
    /\ Draws(out)[2].arg.geom = Draws(out)[1].arg.geom

----------------------------------------------------------------------------
(* Properties of the state stack, checked under SpecState *)

Paint(c) == <<c.StrokeColor, c.FillColor, c.LineWidth, c.Cap, c.Join, c.FillRule>>

\* C4: Save followed by its matching Restore returns stroke colour, fill
\* colour, line width, cap, join and fill rule to their values before the
\* Save: Save keeps them and records them on top of the stack, no other call
\* touches the stack, and Restore makes them the recorded values again.
C4_SaveRestore ==
    [][/\ call'.name = "Save" =>
            /\ Paint(Current') = Paint(Current)
            /\ Paint(Head(Stack')) = Paint(Current)
            /\ Tail(Stack') = Stack
       /\ (call'.name = "Restore" /\ Stack # <<>>) =>
            /\ Paint(Current') = Paint(Head(Stack))
            /\ Stack' = Tail(Stack)
       /\ call'.name \notin {"Save", "Restore"} => Stack' = Stack]_vars

C4_Witness ==
    /\ call.name = "Restore"
    /\ ~unbalanced
    /\ Len(Stack) = 1
    /\ nset >= 2
    /\ Paint(Current) # Paint(Head(Stack))
    /\ Paint(Current) # Paint(InitCurrent)

\* C5: while no Restore was issued without an outstanding Save, the
\* handle's line width, draw colour, fill colour, cap style and join style
\* are those of the current state, and Restore sends each of them, after
\* ending the transform block.
C5_HandleMirrorsState ==
    ~unbalanced =>
        /\ pdf.lineWidth = Current.LineWidth
        /\ pdf.drawColor = rgb(Current.StrokeColor)
        /\ pdf.fillColor = rgb(Current.FillColor)
        /\ pdf.capStyle = caps[Current.Cap]
        /\ pdf.joinStyle = joins[Current.Join]
        /\ call.name = "Restore" =>
             /\ out[1].cmd = "TransformEnd"
             /\ Sent(out, "SetLineWidth") = <<Cmd("SetLineWidth", Current.LineWidth)>>
             /\ Sent(out, "SetDrawColor") = <<Cmd("SetDrawColor", rgb(Current.StrokeColor))>>
             /\ Sent(out, "SetFillColor") = <<Cmd("SetFillColor", rgb(Current.FillColor))>>
             /\ Sent(out, "SetLineCapStyle") = <<Cmd("SetLineCapStyle", caps[Current.Cap])>>
             /\ Sent(out, "SetLineJoinStyle") = <<Cmd("SetLineJoinStyle", joins[Current.Join])>>

C5_Witness ==
    /\ call.name = "Restore"
    /\ ~unbalanced
    /\ Stack = <<>>
    /\ nset >= 2
    /\ Paint(Current) = Paint(InitCurrent)
    /\ pdf.lineWidth = InitCurrent.LineWidth

\* C6: Save sends exactly one transform-begin, Restore exactly one
\* transform-end, no other call sends either, and while no Restore was
\* issued without an outstanding Save the handle has as many transform
\* blocks open as there are saved states.
C6_TransformBlocks ==
    /\ Len(Sent(out, "TransformBegin")) = (IF call.name = "Save" THEN 1 ELSE 0)
    /\ Len(Sent(out, "TransformEnd")) = (IF call.name = "Restore" THEN 1 ELSE 0)
    /\ ~unbalanced => pdf.transformNest = Len(Stack)

C6_Witness ==
    /\ call.name = "Restore"
    /\ ~unbalanced
    /\ Len(Stack) = 1
    /\ pdf.transformNest = 1

----------------------------------------------------------------------------
(* The font backend (truetype.Font and truetype.GlyphBuf): a font of the
   glyphs 1 and 2 and the missing-glyph 0.  Metrics and outline points are 26.6 fixed-point numbers. *)

Runes == {"A", "B"}

\* font.Index: the glyph of a rune, 0 for a rune the font does not have
FontIndex(rune) == CASE rune = "A" -> 1 [] rune = "B" -> 2 [] OTHER -> 0

\* font.Kerning(scale, i0, i1)
FontKerning(i0, i1) ==
    CASE i0 = 1 /\ i1 = 2 -> 128
      [] i0 = 2 /\ i1 = 1 -> -37
      [] OTHER -> 0

\* font.HMetric(scale, i).AdvanceWidth
AdvanceWidth(i) == CASE i = 1 -> 640 [] i = 2 -> 512 [] OTHER -> 320

Pt(x, y, on) == [X |-> x, Y |-> y, on |-> on]

\* glyphBuf.Point and glyphBuf.End after a successful Load
GlyphPoint(i) ==
    CASE i = 1 -> <<Pt(0, 0, TRUE), Pt(64, 0, TRUE), Pt(0, 64, TRUE)>>
      [] i = 2 -> <<Pt(0, 0, TRUE), Pt(64, 64, FALSE), Pt(128, -6, FALSE),
                    Pt(8, 8, TRUE), Pt(16, 8, TRUE)>>
      [] OTHER -> <<>>

GlyphEnd(i) == CASE i = 1 -> <<3>> [] i = 2 -> <<3, 5>> [] OTHER -> <<>>

FontCall(w, fn, args) == [w EXCEPT !.fontLog = Append(@, [fn |-> fn, args |-> args])]

----------------------------------------------------------------------------
(* Glyph outlines and string layout *)

\* 256 * (float64(scaled/256) + float64(scaled%256)/256.0)
fUnitsToFloat64(x) ==
    LET scaled == Shl2(x)
    IN Quot(scaled, 256) * 256 + Rem(scaled, 256)

pointToF64Point(p) == <<fUnitsToFloat64(p.X), -fUnitsToFloat64(p.Y)>>

gcMoveTo(w, x, y) == BaseAppend(w, Seg("M", 0, 0, x, y))
gcLineTo(w, x, y) == BaseAppend(w, Seg("L", 0, 0, x, y))
gcQuadCurveTo(w, cx, cy, x, y) == BaseAppend(w, Seg("Q", cx, cy, x, y))

\* (mutant) no line is drawn between two on-curve points
ContourStepNoLine(w, q, p, dx, dy) ==
    LET f == pointToF64Point(p)
        qX == f[1]
        qY == f[2]
    IN IF p.on
       THEN IF q[3]
            THEN w
            ELSE gcQuadCurveTo(w, q[1] + dx, q[2] + dy, qX + dx, qY + dy)
       ELSE IF q[3]
            THEN w
            ELSE gcQuadCurveTo(w, q[1] + dx, q[2] + dy,
                               (q[1] + qX) \div 2 + dx, (q[2] + qY) \div 2 + dy)

\* (mutant) two off-curve points in a row: the curve ends at the second
\* point instead of the midpoint
ContourStepNoMidpoint(w, q, p, dx, dy) ==
    LET f == pointToF64Point(p)
        qX == f[1]
        qY == f[2]
    IN IF p.on
       THEN IF q[3]
            THEN gcLineTo(w, qX + dx, qY + dy)
            ELSE gcQuadCurveTo(w, q[1] + dx, q[2] + dy, qX + dx, qY + dy)
       ELSE IF q[3]
            THEN w
            ELSE gcQuadCurveTo(w, q[1] + dx, q[2] + dy, qX + dx, qY + dy)

\* one iteration of drawContour's loop on the point p; q is <<q0X, q0Y, on0>>
ContourStep(w, q, p, dx, dy) ==
    LET f == pointToF64Point(p)
        qX == f[1]
        qY == f[2]
    IN IF p.on
       THEN IF q[3]
            THEN gcLineTo(w, qX + dx, qY + dy)
            ELSE gcQuadCurveTo(w, q[1] + dx, q[2] + dy, qX + dx, qY + dy)
       ELSE IF q[3]
            THEN w
            ELSE gcQuadCurveTo(w, q[1] + dx, q[2] + dy,
                               (q[1] + qX) \div 2 + dx, (q[2] + qY) \div 2 + dy)

\* drawContour's loop from the i-th point on, then the closing segment
RECURSIVE ContourLoop(_, _, _, _, _, _, _)
ContourLoop(w, ps, i, q, start, dx, dy) ==
    IF i > Len(ps)
    THEN IF q[3]
         THEN gcLineTo(w, start[1] + dx, start[2] + dy)
         ELSE gcQuadCurveTo(w, q[1] + dx, q[2] + dy, start[1] + dx, start[2] + dy)
    ELSE LET f == pointToF64Point(ps[i])
         IN ContourLoop(ContourStep(w, q, ps[i], dx, dy), ps, i + 1,
                        <<f[1], f[2], ps[i].on>>, start, dx, dy)

drawContour(w, ps, dx, dy) ==
    IF Len(ps) = 0 THEN w
    ELSE LET start == pointToF64Point(ps[1])
         IN ContourLoop(gcMoveTo(w, start[1] + dx, start[2] + dy), ps, 2,
                        <<start[1], start[2], TRUE>>, start, dx, dy)

\* drawGlyph's loop over glyphBuf.End from the n-th contour on
RECURSIVE GlyphContours(_, _, _, _, _, _)
GlyphContours(w, glyph, n, e0, dx, dy) ==
    IF n > Len(GlyphEnd(glyph)) THEN w
    ELSE LET e1 == GlyphEnd(glyph)[n]
         IN GlyphContours(drawContour(w, SubSeq(GlyphPoint(glyph), e0 + 1, e1), dx, dy),
                          glyph, n + 1, e1, dx, dy)

\* drawGlyph; bad is the set of glyphs whose outline fails to load.
\* The result is [w, err].
drawGlyph(w, glyph, dx, dy, bad) ==
    LET w1 == FontCall(w, "Load", <<glyph>>)
    IN IF glyph \in bad
       THEN [w |-> w1, err |-> TRUE]
       ELSE [w |-> GlyphContours(w1, glyph, 1, 0, dx, dy), err |-> FALSE]

\* (mutant) the kerning is never added to the cursor
KernedNone(w, c, index) == [w |-> w, x |-> c.x]

\* the cursor after the kerning of the pair (prev, index); c is the loop
\* state [x, prev, hasPrev].  The result is [w, x].
Kerned(w, c, index) ==
    IF c.hasPrev
    THEN [w |-> FontCall(w, "Kerning", <<c.prev, index>>),
          x |-> c.x + fUnitsToFloat64(FontKerning(c.prev, index))]
    ELSE [w |-> w, x |-> c.x]

\* (mutant) the failure return is the advance made so far
FailureReturnAdvance(startx, x) == x - startx

\* return startx - x
FailureReturn(startx, x) == startx - x

\* CreateStringPath's loop from the i-th rune on.  The result is [w, cursor].
RECURSIVE LayoutLoop(_, _, _, _, _, _, _)
LayoutLoop(w, s, i, c, y, startx, bad) ==
    IF i > Len(s) THEN [w |-> w, cursor |-> c.x - startx]
    ELSE LET index == FontIndex(s[i])
             k == Kerned(FontCall(w, "Index", <<s[i]>>), c, index)
             g == drawGlyph(k.w, index, k.x, y, bad)
         IN IF g.err
            THEN [w |-> g.w, cursor |-> FailureReturn(startx, k.x)]
            ELSE LayoutLoop(FontCall(g.w, "HMetric", <<index>>), s, i + 1,
                            [x |-> k.x + fUnitsToFloat64(AdvanceWidth(index)),
                             prev |-> index, hasPrev |-> TRUE],
                            y, startx, bad)

gcCreateStringPath(w, s, x, y, bad) ==
    LayoutLoop(w, s, 1, [x |-> x, prev |-> 0, hasPrev |-> FALSE], y, x, bad)

gcFillStringAt(w, text, x, y, bad) ==
    LET r == gcCreateStringPath(w, text, x, y, bad)
    IN [w |-> gcFill(r.w, <<>>), cursor |-> r.cursor]

gcFillString(w, text, bad) == gcFillStringAt(w, text, 0, 0, bad)

gcStrokeStringAt(w, text, x, y, bad) == gcCreateStringPath(w, text, x, y, bad)

gcStrokeString(w, text, bad) == gcStrokeStringAt(w, text, 0, 0, bad)

\* the inputs of the text calls
Strings == UNION {[1..n -> Runes] : n \in 0..MaxStr}
StartXs == {0, 768}
StartYs == {256}
BadSets == {{}, {1}, {2}}

TextCall(name, r, text, x, y, bad) ==
    /\ Commit(r.w)
    /\ call' = [NoCall(name) EXCEPT !.text = text, !.x = x, !.y = y, !.bad = bad]
    /\ ret' = r.cursor
    /\ UNCHANGED <<nset, unbalanced>>

CreateStringPath(s, x, y, bad) ==
    /\ Len(Current.Path) <= MaxPending
    /\ TextCall("CreateStringPath", gcCreateStringPath(GC, s, x, y, bad), s, x, y, bad)

FillString(text, bad) ==
    /\ Len(Current.Path) <= MaxPending
    /\ TextCall("FillString", gcFillString(GC, text, bad), text, 0, 0, bad)

FillStringAt(text, x, y, bad) ==
    /\ Len(Current.Path) <= MaxPending
    /\ TextCall("FillStringAt", gcFillStringAt(GC, text, x, y, bad), text, x, y, bad)

StrokeString(text, bad) ==
    /\ Len(Current.Path) <= MaxPending
    /\ TextCall("StrokeString", gcStrokeString(GC, text, bad), text, 0, 0, bad)

StrokeStringAt(text, x, y, bad) ==
    /\ Len(Current.Path) <= MaxPending
    /\ TextCall("StrokeStringAt", gcStrokeStringAt(GC, text, x, y, bad), text, x, y, bad)

\* text layout
NextText ==
    \/ \E s \in Strings, x \in StartXs, y \in StartYs, bad \in BadSets :
          CreateStringPath(s, x, y, bad)
    \/ \E s \in Strings, bad \in BadSets : FillString(s, bad)
    \/ \E s \in Strings, x \in StartXs, y \in StartYs, bad \in BadSets :
          FillStringAt(s, x, y, bad)
    \/ \E s \in Strings, bad \in BadSets : StrokeString(s, bad)
    \/ \E s \in Strings, x \in StartXs, y \in StartYs, bad \in BadSets :
          StrokeStringAt(s, x, y, bad)

SpecText == Init /\ [][NextText]_vars

----------------------------------------------------------------------------
(* Properties of the text calls, checked under SpecText *)

Called(log, fn) == SelectSeq(log, LAMBDA e : e.fn = fn)

GlyphOf(text, n) == FontIndex(text[n])

\* the advance widths of the first n glyphs of text, converted and summed
RECURSIVE SumAdvance(_, _)
SumAdvance(text, n) ==
    IF n = 0 THEN 0
    ELSE SumAdvance(text, n - 1) + fUnitsToFloat64(AdvanceWidth(GlyphOf(text, n)))

\* the kernings of the adjacent pairs among the first n glyphs of text
RECURSIVE SumKerning(_, _)
SumKerning(text, n) ==
    IF n <= 1 THEN 0
    ELSE SumKerning(text, n - 1)
           + fUnitsToFloat64(FontKerning(GlyphOf(text, n - 1), GlyphOf(text, n)))

AllLoad(c) == \A n \in 1..Len(c.text) : GlyphOf(c.text, n) \notin c.bad

\* the position in the text of the first glyph whose outline fails to load
FirstBad(c) ==
    CHOOSE k \in 1..Len(c.text) :
        /\ GlyphOf(c.text, k) \in c.bad
        /\ \A j \in 1..(k - 1) : GlyphOf(c.text, j) \notin c.bad

StrokeTextOps == {"StrokeString", "StrokeStringAt"}

\* C7: StrokeString and StrokeStringAt lay the string out and then fill: the
\* call sends a fill draw command and leaves the current path empty.
C7_StrokeStringFills ==
    call.name \in StrokeTextOps =>
        /\ \E i \in 1..Len(out) :
              out[i].cmd = "DrawPath" /\ out[i].arg.style \in FillStyles
        /\ Current.Path = <<>>

C10_PartialAdvance ==
    (call.name = "CreateStringPath" /\ ~AllLoad(call)) =>
        LET k == FirstBad(call)
            advance == SumAdvance(call.text, k - 1) + SumKerning(call.text, k)
        IN /\ ret = advance
           /\ advance >= 0 => ret >= 0

----------------------------------------------------------------------------
(* The contour tracer on its own: drawContour applied to one contour *)

MaxPts == 3       \* points of a traced contour

ContourPoints == {Pt(x, y, on) : x \in {0, 64}, y \in {-37}, on \in BOOLEAN}
Contours == UNION {[1..n -> ContourPoints] : n \in 0..MaxPts}
Offsets == {<<0, 0>>, <<768, 256>>}
PriorPaths == {<<>>, <<Seg("M", 0, 0, 256, 512)>>}

InitContour ==
    /\ Init!2 /\ Init!3 /\ Init!4 /\ Init!5 /\ Init!6 /\ Init!8 /\ Init!9 /\ Init!10
    /\ Init!11 /\ Init!12
    /\ \E path \in PriorPaths :
          Current = [NewGraphicContext.Current EXCEPT !.Path = path]
    /\ \E ps \in Contours, d \in Offsets :
          call = [name |-> "input", paths |-> <<>>, text |-> <<>>,
                  x |-> d[1], y |-> d[2], bad |-> {}, ps |-> ps, afterDraw |-> FALSE]

DrawContour ==
    /\ call.name = "input"
    /\ Commit(drawContour(GC, call.ps, call.x, call.y))
    /\ call' = [call EXCEPT !.name = "drawContour"]
    /\ UNCHANGED <<ret, nset, unbalanced>>

SpecContour == InitContour /\ [][DrawContour]_vars

\* the i-th point of the traced contour in pixel space, offset by (dx, dy)
PX(c, i) == fUnitsToFloat64(c.ps[i].X) + c.x
PY(c, i) == -fUnitsToFloat64(c.ps[i].Y) + c.y

\* the segments the last call appended to the path it found
Appended(before, after) == SubSeq(after, Len(before) + 1, Len(after))

\* C11: for a contour of n >= 1 points, all on-curve, drawContour appends
\* one move-to at the first point, line-to segments to points 2..n in order
\* and a line-to back to the first point, all offset by (dx, dy), and no
\* curve; for an empty point list it appends nothing.
C11_OnCurveContour ==
    [][call'.name = "drawContour" =>
         LET c == call'
             n == Len(c.ps)
         IN /\ n = 0 => Current'.Path = Current.Path
            /\ (n >= 1 /\ \A i \in 1..n : c.ps[i].on) =>
                 Current'.Path =
                    Current.Path
                      \o <<Seg("M", 0, 0, PX(c, 1), PY(c, 1))>>
                      \o [i \in 1..(n - 1) |-> Seg("L", 0, 0, PX(c, i + 1), PY(c, i + 1))]
                      \o <<Seg("L", 0, 0, PX(c, 1), PY(c, 1))>>]_vars

C11_Witness ==
    /\ call.name = "drawContour"
    /\ Len(call.ps) = 3
    /\ \A i \in 1..3 : call.ps[i].on
    /\ call.ps[2].X # call.ps[1].X
    /\ call.x = 768
    /\ Len(Current.Path) = 5

\* the off-curve points after the first
OffCurve(c) == {i \in 2..Len(c.ps) : ~c.ps[i].on}

\* the end of the curve whose control point is the off-curve point i
CurveEnd(c, i) ==
    IF i = Len(c.ps) THEN <<PX(c, 1), PY(c, 1)>>
    ELSE IF c.ps[i + 1].on THEN <<PX(c, i + 1), PY(c, i + 1)>>
    ELSE <<(fUnitsToFloat64(c.ps[i].X) + fUnitsToFloat64(c.ps[i + 1].X)) \div 2 + c.x,
           (-fUnitsToFloat64(c.ps[i].Y) - fUnitsToFloat64(c.ps[i + 1].Y)) \div 2 + c.y>>

\* C12: for a non-empty contour, the curves appended are, in order, one per
\* off-curve point after the first, with that point as control point and
\* ending at the next point if it is on-curve, at the midpoint if the next
\* point is off-curve too, at the start point if there is no next point; an
\* off-curve point that follows an on-curve point appends nothing when it
\* is read; the last segment appended ends at the start point.
C12_OffCurveContour ==
    [][(call'.name = "drawContour" /\ Len(call'.ps) >= 1) =>
         LET c == call'
             n == Len(c.ps)
             new == Appended(Current.Path, Current'.Path)
             curves == SelectSeq(new, LAMBDA g : g.op = "Q")
             rank(i) == Cardinality({j \in OffCurve(c) : j <= i})
             deferred == {i \in OffCurve(c) : i = 2 \/ c.ps[i - 1].on}
         IN /\ SubSeq(Current'.Path, 1, Len(Current.Path)) = Current.Path
            /\ Len(curves) = Cardinality(OffCurve(c))
            /\ \A i \in OffCurve(c) :
                  /\ curves[rank(i)].cx = PX(c, i)
                  /\ curves[rank(i)].cy = PY(c, i)
                  /\ <<curves[rank(i)].x, curves[rank(i)].y>> = CurveEnd(c, i)
            /\ Len(new) = 1 + (n - 1) - Cardinality(deferred) + 1
            /\ new[Len(new)].x = PX(c, 1)
            /\ new[Len(new)].y = PY(c, 1)]_vars

C12_Witness ==
    /\ call.name = "drawContour"
    /\ Len(call.ps) = 3
    /\ call.ps[1].on /\ ~call.ps[2].on /\ ~call.ps[3].on
    /\ call.ps[2].X # call.ps[3].X
    /\ call.x = 768
    /\ Len(Current.Path) = 4
    /\ Current.Path[3].op = "Q" /\ Current.Path[4].op = "Q"

----------------------------------------------------------------------------
(* The unit conversion on its own: fUnitsToFloat64 applied to one int32 *)

MaxFUnit == 40    \* the small arguments run over -MaxFUnit..MaxFUnit

\* 2^29, where x << 2 first leaves the int32 range
ShiftLimit == 536870912

FUnitInputs ==
    (-MaxFUnit..MaxFUnit)
      \cup {ShiftLimit - 1, ShiftLimit + 1, 2 * ShiftLimit + 3, 2147483647,
            -ShiftLimit, -ShiftLimit - 1, -2147483647}

InitFUnits ==
    /\ Init!1 /\ Init!2 /\ Init!3 /\ Init!4 /\ Init!5 /\ Init!6
    /\ Init!8 /\ Init!9 /\ Init!10 /\ Init!11 /\ Init!12
    /\ \E x \in FUnitInputs :
          call = [name |-> "input", paths |-> <<>>, text |-> <<>>,
                  x |-> x, y |-> 0, bad |-> {}, ps |-> <<>>, afterDraw |-> FALSE]

FUnitsToFloat64 ==
    /\ call.name = "input"
    /\ ret' = fUnitsToFloat64(call.x)
    /\ call' = [call EXCEPT !.name = "fUnitsToFloat64"]
    /\ UNCHANGED <<Current, Stack, dpi, pdf, out, fontLog, nset, unbalanced,
                   imageCount, threads>>

SpecFUnits == InitFUnits /\ [][FUnitsToFloat64]_vars

\* C13: for every int32 x, negative or not, fUnitsToFloat64(x) is the exact
\* rational x*4/256: the result, held as 256 times its value, is 4*x.
C13_ExactConversion ==
    call.name = "fUnitsToFloat64" => (Rem(ret, 4) = 0 /\ Quot(ret, 4) = call.x)

\* the conversion is exact wherever x << 2 stays inside the int32 range
C13_ExactInRange ==
    (call.name = "fUnitsToFloat64" /\ call.x >= -ShiftLimit /\ call.x < ShiftLimit)
        => (Rem(ret, 4) = 0 /\ Quot(ret, 4) = call.x)

----------------------------------------------------------------------------
(* Properties of scale, dash pattern and font, checked under SpecFont *)

\* C15: after construction and after every SetFontSize, SetDPI, Save and
\* Restore the current glyph scale is fontSize * DPI * (64/72) / 3 for the
\* current font size and the context's current DPI, also when the DPI was
\* changed between a Save and its Restore.
C15_ScaleFollows ==
    Current.Scale[1] * (72 * 3) = Current.FontSize * dpi * 64 * Current.Scale[2]

C15_Witness ==
    /\ call.name = "Restore"
    /\ ~unbalanced
    /\ Len(Stack) = 1
    /\ dpi = 96
    /\ Current.FontSize = Stack[1].FontSize
    /\ Current.Scale # Stack[1].Scale
    /\ Current.Scale = Frac(Current.FontSize * 96 * 64, 72 * 3)

\* C16: Restore sends the handle no dash-pattern command and no font
\* command: the handle's dash pattern and font after a Restore are those it
\* had before it, whatever the restored state holds.
C16_DashFontNotRestored ==
    [][call'.name = "Restore" =>
         /\ Sent(out', "SetDashPattern") = <<>>
         /\ Sent(out', "AddFont") = <<>>
         /\ Sent(out', "SetFont") = <<>>
         /\ pdf'.dash = pdf.dash
         /\ pdf'.font = pdf.font]_vars

C16_Witness ==
    /\ call.name = "Restore"
    /\ ~unbalanced
    /\ pdf.dash # <<Current.Dash, Current.DashOffset>>
    /\ pdf.dash = <<<<768, 256>>, 128>>
    /\ pdf.font.style = "BI"
    /\ Current.FontData.Style = 0

----------------------------------------------------------------------------
(* Properties of Clear and ClearRect, checked under SpecClear *)

ClearOps == {"Clear", "ClearRect"}

LineStyle(c, h) ==
    <<c.LineWidth, c.Cap, c.Join, c.Dash, c.DashOffset,
      h.lineWidth, h.capStyle, h.joinStyle, h.dash>>

\* C18: Clear and ClearRect leave the current state's fill colour and the
\* handle's fill colour and text colour as they were before the call; the
\* stroke colour, the line style and the depth of the state stack are not
\* touched, and the current path is empty after the call.
C18_ClearKeepsFill ==
    [][call'.name \in ClearOps =>
         /\ Current'.FillColor = Current.FillColor
         /\ pdf'.fillColor = pdf.fillColor
         /\ pdf'.textColor = pdf.textColor
         /\ Current'.StrokeColor = Current.StrokeColor
         /\ pdf'.drawColor = pdf.drawColor
         /\ LineStyle(Current', pdf') = LineStyle(Current, pdf)
         /\ Len(Stack') = Len(Stack)
         /\ Current'.Path = <<>>]_vars

\* all of it but the text colour, which ends as the fill colour
C18_ClearKeepsFillOnly ==
    [][call'.name \in ClearOps =>
         /\ Current'.FillColor = Current.FillColor
         /\ pdf'.fillColor = pdf.fillColor
         /\ pdf'.textColor = rgb(Current.FillColor)
         /\ Current'.StrokeColor = Current.StrokeColor
         /\ pdf'.drawColor = pdf.drawColor
         /\ LineStyle(Current', pdf') = LineStyle(Current, pdf)
         /\ Len(Stack') = Len(Stack)
         /\ Current'.Path = <<>>]_vars

----------------------------------------------------------------------------
(* DrawImage on several contexts, one per thread.  imageCount is a plain
   package variable: the read for the name, and the read and the write of
   imageCount++, are separate memory accesses that interleave with those of
   the other threads.  Each thread's handle is its own.  The run makes at
   most MaxImages calls, far below the 2^32 at which the uint32 wraps. *)

Digits == <<"0", "1", "2", "3", "4", "5", "6", "7", "8", "9">>

\* strconv.Itoa for a non-negative argument
RECURSIVE Itoa(_)
Itoa(n) == IF n < 10 THEN Digits[n + 1] ELSE Itoa(n \div 10) \o Digits[(n % 10) + 1]

\* DrawImage calls begun so far
Begun ==
    LET RECURSIVE Sum(_)
        Sum(T) == IF T = {} THEN 0
                  ELSE LET t == CHOOSE u \in T : TRUE
                       IN Len(threads[t].images)
                            + (IF threads[t].pc = "idle" THEN 0 ELSE 1)
                            + Sum(T \ {t})
    IN Sum(Threads)

ImageStep(t, pc, next) ==
    /\ threads[t].pc = pc
    /\ threads' = [threads EXCEPT ![t] = next]
    /\ UNCHANGED <<Current, Stack, dpi, pdf, out, fontLog, call, ret, nset, unbalanced>>

\* name := strconv.Itoa(int(imageCount))
ReadName(t) ==
    /\ Begun < MaxImages
    /\ ImageStep(t, "idle", [threads[t] EXCEPT !.pc = "named", !.name = Itoa(imageCount)])
    /\ UNCHANGED imageCount

\* imageCount++, the read
LoadCount(t) ==
    /\ ImageStep(t, "named", [threads[t] EXCEPT !.pc = "loaded", !.loaded = imageCount])
    /\ UNCHANGED imageCount

\* imageCount++, the write
StoreCount(t) ==
    /\ ImageStep(t, "loaded", [threads[t] EXCEPT !.pc = "stored"])
    /\ imageCount' = threads[t].loaded + 1

\* gc.pdf.RegisterImageReader(name, tp, b); gc.pdf.Image(name, ...)
RegisterImage(t) ==
    /\ ImageStep(t, "stored", [threads[t] EXCEPT !.pc = "idle",
                                                !.images = Append(@, threads[t].name)])
    /\ UNCHANGED imageCount

NextImage ==
    \E t \in Threads :
        \/ ReadName(t)
        \/ LoadCount(t)
        \/ StoreCount(t)
        \/ RegisterImage(t)

SpecImage == Init /\ [][NextImage]_vars

\* the registrations made so far, as <<thread, position in its handle>>
Registrations == {<<t, i>> : t \in Threads, i \in 1..MaxImages} \cap
                 {r \in Threads \X (1..MaxImages) : r[2] <= Len(threads[r[1]].images)}

NameOf(r) == threads[r[1]].images[r[2]]

\* the names taken by the calls begun so far, registered yet or not
NamesTaken ==
    {NameOf(r) : r \in Registrations}
       \cup {threads[t].name : t \in {u \in Threads : threads[u].pc # "idle"}}

\* C19: no two DrawImage calls of the process register the same name, on
\* whatever contexts and threads they run, and the names the calls take
\* are the decimal numerals of 0, 1, 2, ... without a gap.
C19_UniqueNames ==
    /\ \A r, q \in Registrations : r # q => NameOf(r) # NameOf(q)
    /\ NamesTaken = {Itoa(k) : k \in 0..(Begun - 1)}

\* calls of one thread, with no other thread drawing, do get the names
\* "0", "1", "2", ... in order
C19_SequentialNames ==
    \A t \in Threads :
        (\A u \in Threads \ {t} : threads[u].pc = "idle" /\ threads[u].images = <<>>)
            => threads[t].images = [k \in 1..Len(threads[t].images) |-> Itoa(k - 1)]

====
